---- MODULE Spec2Model ----
(***************************************************************************)
(* Model of the headless editing core of the code editor: the line-indexed *)
(* text buffer (text.rs), the undo/redo history (history.rs), the          *)
(* multi-region selection (selection.rs), the cursor motions (move_ops.rs) *)
(* and the orchestration layer State / Session / Document (state.rs).      *)
(*                                                                         *)
(* Conventions.  A line is a sequence of one-byte characters, a Text is a  *)
(* non-empty sequence of lines.  The source indexes lines and bytes from   *)
(* 0; sequences here are indexed from 1, so line i of the source is        *)
(* lines[i + 1].  A Rust panic (index out of bounds, failed assert!) ends  *)
(* the program: the handler that panics sets `panic` to the reason and no  *)
(* further operation runs.                                                 *)
(***************************************************************************)
EXTENDS Integers, Sequences, FiniteSets, TLC

VARIABLES
    text,               \* History::text, the lines of the one document
    prev_edit,          \* History::prev_edit
    undo_stack,         \* History::undo_stack
    redo_stack,         \* History::redo_stack
    selection,          \* Session::selection, per session
    last_added_region,  \* Session::last_added_region, per session
    caches,             \* the per-line cache arrays of Session, per session
    panic,              \* "none", or the reason the program aborted
    log,                \* history variable: the operations run so far
    call,               \* a function called on its own: its name and arguments
    ret                 \* what that call returned, once it has run

vars == <<text, prev_edit, undo_stack, redo_stack, selection, last_added_region,
          caches, panic, log, call, ret>>

\* Number of State operations a behaviour runs (caps the exploration).
MaxOps == 3

\* The sessions viewing the document (Document::sessions).
Sessions == {1, 2}

----------------------------------------------------------------------------
(* text.rs: Position, Length and their arithmetic *)

Pos(l, b) == [line_index |-> l, byte_index |-> b]

Len2(l, b) == [line_count |-> l, byte_count |-> b]

\* #[derive(Ord)] on Position: lexicographic by (line_index, byte_index)
PosLt(a, b) ==
    \/ a.line_index < b.line_index
    \/ a.line_index = b.line_index /\ a.byte_index < b.byte_index

PosLe(a, b) == a = b \/ PosLt(a, b)

PosMin(a, b) == IF PosLe(a, b) THEN a ELSE b

PosMax(a, b) == IF PosLe(a, b) THEN b ELSE a

\* impl Add<Length> for Position
PosAdd(p, length) ==
    IF length.line_count = 0
    THEN Pos(p.line_index, p.byte_index + length.byte_count)
    ELSE Pos(p.line_index + length.line_count, length.byte_count)

\* impl Sub for Position
PosSub(a, b) ==
    IF a.line_index = b.line_index
    THEN Len2(0, a.byte_index - b.byte_index)
    ELSE Len2(a.line_index - b.line_index, a.byte_index)

----------------------------------------------------------------------------
(* text.rs: Text *)

Take(s, n) == SubSeq(s, 1, n)

Drop(s, n) == SubSeq(s, n + 1, Len(s))

\* Text::default: one empty line
DefaultText == << <<>> >>

\* Text::length
TextLength(lines) == Len2(Len(lines) - 1, Len(lines[Len(lines)]))

\* The indexing and slicing of Text::slice / Text::delete succeeds (no panic).
RangeInBounds(lines, start, length) ==
    LET end == PosAdd(start, length) IN
    IF length.line_count = 0
    THEN /\ start.line_index < Len(lines)
         /\ start.byte_index + length.byte_count <= Len(lines[start.line_index + 1])
    ELSE /\ end.line_index < Len(lines)
         /\ start.byte_index <= Len(lines[start.line_index + 1])
         /\ end.byte_index <= Len(lines[end.line_index + 1])

\* The indexing and slicing of Text::insert succeeds (no panic).
PointInBounds(lines, position) ==
    /\ position.line_index < Len(lines)
    /\ position.byte_index <= Len(lines[position.line_index + 1])

\* Text::slice
Slice(lines, start, length) ==
    LET end == PosAdd(start, length) IN
    IF length.line_count = 0
    THEN << SubSeq(lines[start.line_index + 1],
                   start.byte_index + 1, start.byte_index + length.byte_count) >>
    ELSE << Drop(lines[start.line_index + 1], start.byte_index) >>
         \o SubSeq(lines, start.line_index + 2, end.line_index)
         \o << Take(lines[end.line_index + 1], end.byte_index) >>

\* Text::insert
TextInsert(lines, position, t) ==
    LET line   == lines[position.line_index + 1]
        before == Take(line, position.byte_index)
        after  == Drop(line, position.byte_index)
    IN  IF TextLength(t).line_count = 0
        THEN [lines EXCEPT ![position.line_index + 1] = before \o t[1] \o after]
        ELSE Take(lines, position.line_index)
             \o << before \o t[1] >>
             \o SubSeq(t, 2, Len(t) - 1)
             \o << t[Len(t)] \o after >>
             \o Drop(lines, position.line_index + 1)

\* Faulty variant of TextDelete: a deletion across lines removes the lines of
\* the range without putting back the line joined from `before` and `after`
TextDeleteDropsJoinedLine(lines, start, length) ==
    LET end == PosAdd(start, length) IN
    IF length.line_count = 0
    THEN [lines EXCEPT ![start.line_index + 1] =
              Take(@, start.byte_index) \o Drop(@, end.byte_index)]
    ELSE Take(lines, start.line_index) \o Drop(lines, end.line_index + 1)

\* Text::delete
TextDelete(lines, start, length) ==
    LET end == PosAdd(start, length) IN
    IF length.line_count = 0
    THEN [lines EXCEPT ![start.line_index + 1] =
              Take(@, start.byte_index) \o Drop(@, end.byte_index)]
    ELSE Take(lines, start.line_index)
         \o << Take(lines[start.line_index + 1], start.byte_index)
               \o Drop(lines[end.line_index + 1], end.byte_index) >>
         \o Drop(lines, end.line_index + 1)

----------------------------------------------------------------------------
(* text.rs: Change, Drift *)

Insert(position, t) == [kind |-> "Insert", position |-> position, text |-> t]

Delete(start, length) == [kind |-> "Delete", start |-> start, length |-> length]

\* The change can be inverted against and applied to `lines` without a panic.
ChangeInBounds(lines, change) ==
    IF change.kind = "Insert"
    THEN PointInBounds(lines, change.position)
    ELSE RangeInBounds(lines, change.start, change.length)

\* Text::apply_change
TextApplyChange(lines, change) ==
    IF change.kind = "Insert"
    THEN TextInsert(lines, change.position, change.text)
    ELSE TextDelete(lines, change.start, change.length)

\* Faulty variant of Invert: the inverse of an Insert deletes as many bytes on
\* the last line as the inserted text's first line has
InvertFirstLineLength(change, lines) ==
    IF change.kind = "Insert"
    THEN Delete(change.position, Len2(Len(change.text) - 1, Len(change.text[1])))
    ELSE Insert(change.start, Slice(lines, change.start, change.length))

\* Change::invert
Invert(change, lines) ==
    IF change.kind = "Insert"
    THEN Delete(change.position, TextLength(change.text))
    ELSE Insert(change.start, Slice(lines, change.start, change.length))

\* Faulty variant of PositionApplyChange: the end of the deleted range is not
\* clamped to the position (no .min(self))
PositionApplyChangeUnclamped(p, change, drift) ==
    IF change.kind = "Insert"
    THEN IF PosLt(p, change.position) THEN p
         ELSE IF p = change.position
              THEN IF drift = "Before" THEN PosAdd(p, TextLength(change.text)) ELSE p
              ELSE PosAdd(PosAdd(change.position, TextLength(change.text)),
                          PosSub(p, change.position))
    ELSE IF PosLt(p, change.start) THEN p
         ELSE PosAdd(change.start, PosSub(p, PosAdd(change.start, change.length)))

\* Position::apply_change
PositionApplyChange(p, change, drift) ==
    IF change.kind = "Insert"
    THEN IF PosLt(p, change.position) THEN p
         ELSE IF p = change.position
              THEN IF drift = "Before" THEN PosAdd(p, TextLength(change.text)) ELSE p
              ELSE PosAdd(PosAdd(change.position, TextLength(change.text)),
                          PosSub(p, change.position))
    ELSE IF PosLt(p, change.start) THEN p
         ELSE PosAdd(change.start,
                     PosSub(p, PosMin(PosAdd(change.start, change.length), p)))

----------------------------------------------------------------------------
(* selection.rs: Cursor, Region *)

Cursor(position, affinity) == [position |-> position, affinity |-> affinity]

Region(cursor, anchor) == [cursor |-> cursor, anchor |-> anchor]

\* impl From<Cursor> for Region
RegionFromCursor(cursor) == Region(cursor, cursor.position)

\* Region::default: cursor and anchor at (0, 0), Affinity::default() = Before
DefaultRegion == RegionFromCursor(Cursor(Pos(0, 0), "Before"))

\* Selection::default
DefaultSelection == << DefaultRegion >>

\* Region::start
RegionStart(r) == PosMin(r.cursor.position, r.anchor)

\* Region::end
RegionEnd(r) == PosMax(r.cursor.position, r.anchor)

\* Region::length
RegionLength(r) == PosSub(RegionEnd(r), RegionStart(r))

\* Region::is_empty
RegionIsEmpty(r) == RegionLength(r) = Len2(0, 0)

\* Region::overlaps_with
OverlapsWith(r, other) ==
    IF RegionIsEmpty(r) \/ RegionIsEmpty(other)
    THEN PosLe(RegionStart(other), RegionEnd(r))
    ELSE PosLt(RegionStart(other), RegionEnd(r))

\* Region::reset_anchor
ResetAnchor(r) == Region(r.cursor, r.cursor.position)

\* The closure of update_last_added_cursor / move_all_cursors: replace the
\* cursor, then reset the anchor when asked to.
WithCursor(r, cursor, reset_anchor) ==
    IF reset_anchor THEN ResetAnchor(Region(cursor, r.anchor)) ELSE Region(cursor, r.anchor)

\* Region::apply_change
RegionApplyChange(r, change) ==
    IF PosLe(r.cursor.position, r.anchor)
    THEN Region(Cursor(PositionApplyChange(r.cursor.position, change, "Before"),
                       r.cursor.affinity),
                PositionApplyChange(r.anchor, change, "After"))
    ELSE Region(Cursor(PositionApplyChange(r.cursor.position, change, "After"),
                       r.cursor.affinity),
                PositionApplyChange(r.anchor, change, "Before"))

\* Region::merge_with, in the case where the regions overlap (Some(..))
MergeWith(r, other) ==
    IF PosLe(r.cursor.position, r.anchor)
    THEN Region(r.cursor, other.anchor)
    ELSE Region(other.cursor, r.anchor)

----------------------------------------------------------------------------
(* selection.rs: Selection.  `index` is 0-based as in the source. *)

RemoveAt(s, index) == Take(s, index) \o Drop(s, index + 1)

InsertAt(s, index, e) == Take(s, index) \o << e >> \o Drop(s, index)

\* Faulty variant of UpdateLeft: the index is not decremented when a region on
\* the left is removed
RECURSIVE UpdateLeftKeepsIndex(_, _)
UpdateLeftKeepsIndex(regions, index) ==
    IF index > 0 /\ OverlapsWith(regions[index], regions[index + 1])
    THEN [regions |-> UpdateLeftKeepsIndex(RemoveAt(regions, index - 1), index - 1).regions,
          index   |-> index]
    ELSE [regions |-> regions, index |-> index]

\* Selection::update, first loop: remove the overlapping regions on the left
RECURSIVE UpdateLeft(_, _)
UpdateLeft(regions, index) ==
    IF index > 0 /\ OverlapsWith(regions[index], regions[index + 1])
    THEN UpdateLeft(RemoveAt(regions, index - 1), index - 1)
    ELSE [regions |-> regions, index |-> index]

\* Selection::update, second loop: remove the overlapping regions on the right
RECURSIVE UpdateRight(_, _)
UpdateRight(regions, index) ==
    IF index + 1 < Len(regions) /\ OverlapsWith(regions[index + 1], regions[index + 2])
    THEN UpdateRight(RemoveAt(regions, index + 1), index)
    ELSE [regions |-> regions, index |-> index]

\* Selection::update, with new_region = f(regions[index])
SelectionUpdate(regions, index, new_region) ==
    LET left == UpdateLeft([regions EXCEPT ![index + 1] = new_region], index)
    IN  UpdateRight(left.regions, left.index)

\* Selection::update_all, the merging pass over the regions f has mapped
RECURSIVE UpdateAllMerge(_, _, _)
UpdateAllMerge(regions, index, current_index) ==
    IF current_index + 1 < Len(regions)
    THEN LET next_index     == current_index + 1
             current_region == regions[current_index + 1]
             next_region    == regions[next_index + 1]
         IN  IF ~PosLe(RegionStart(current_region), RegionStart(next_region))
             THEN [regions |-> regions, index |-> index, panic |-> "assert_sorted"]
             ELSE IF OverlapsWith(current_region, next_region)
             THEN UpdateAllMerge(
                      RemoveAt([regions EXCEPT ![current_index + 1] =
                                    MergeWith(current_region, next_region)], next_index),
                      IF next_index < index THEN index - 1 ELSE index,
                      current_index)
             ELSE UpdateAllMerge(regions, index, current_index + 1)
    ELSE [regions |-> regions, index |-> index, panic |-> "none"]

\* Selection::apply_change
SelectionApplyChange(regions, change) ==
    [i \in 1..Len(regions) |-> RegionApplyChange(regions[i], change)]

\* Session::update_after_text_modified with selection = None: the session's
\* regions mapped through every change in order
RECURSIVE SelectionApplyChanges(_, _)
SelectionApplyChanges(regions, changes) ==
    IF changes = <<>> THEN regions
    ELSE SelectionApplyChanges(SelectionApplyChange(regions, Head(changes)), Tail(changes))

\* [T]::binary_search_by_key as Selection::add calls it, the loop of the
\* bisection over the regions' starts: `base` moves to the middle probe
\* unless the probe is greater than the key, also when the probe equals it,
\* until one candidate is left
RECURSIVE Bisect(_, _, _, _)
Bisect(regions, key, base, size) ==
    IF size > 1
    THEN LET half == size \div 2
             mid  == base + half
         IN  Bisect(regions, key,
                    IF PosLt(key, RegionStart(regions[mid + 1])) THEN base ELSE mid,
                    size - half)
    ELSE base

\* The index Selection::add inserts at, Ok(index) or Err(index) of the
\* search alike: the candidate the bisection is left with, or the index after
\* it when the candidate starts before the key
AddIndices(regions, key) ==
    IF regions = <<>> THEN {0}
    ELSE LET base == Bisect(regions, key, 0, Len(regions))
         IN  IF PosLt(RegionStart(regions[base + 1]), key) THEN {base + 1} ELSE {base}

----------------------------------------------------------------------------
(* move_ops.rs.  Graphemes are one byte each (str.rs is a collaborator). *)

\* is_at_last_line
IsAtLastLine(position, lines) == position.line_index = Len(lines)

\* is_at_end_of_line
IsAtEndOfLine(position, lines) ==
    position.byte_index = Len(lines[position.line_index + 1])

\* move_left does not panic: its indexing and slicing of `lines` succeed
MoveLeftInBounds(cursor, lines) ==
    LET position == cursor.position IN
    IF position.byte_index # 0
    THEN PointInBounds(lines, position)
    ELSE position.line_index # 0 => position.line_index - 1 < Len(lines)

\* move_left
MoveLeft(cursor, lines) ==
    LET position == cursor.position IN
    IF position.byte_index # 0
    THEN Cursor(Pos(position.line_index, position.byte_index - 1), cursor.affinity)
    ELSE IF position.line_index # 0
    THEN Cursor(Pos(position.line_index - 1, Len(lines[position.line_index])),
                cursor.affinity)
    ELSE cursor

\* move_right does not panic: its indexing and slicing of `lines` succeed
MoveRightInBounds(cursor, lines) == PointInBounds(lines, cursor.position)

\* move_right
MoveRight(cursor, lines) ==
    LET position == cursor.position IN
    IF ~IsAtEndOfLine(position, lines)
    THEN Cursor(Pos(position.line_index, position.byte_index + 1), cursor.affinity)
    ELSE IF ~IsAtLastLine(position, lines)
    THEN Cursor(Pos(position.line_index + 1, 0), cursor.affinity)
    ELSE cursor

----------------------------------------------------------------------------
(* layout.rs: Line::inline_elements.  An inlay table is a sequence of       *)
(* records [byte_index, inlay], an inlay is TextInlay(..) or WidgetInlay(..) *)

\* InlineInlay::Text
TextInlay(string) == [kind |-> "Text", text |-> string]

\* InlineInlay::Widget(InlineWidget { id, column_count })
WidgetInlay(id, column_count) ==
    [kind |-> "Widget", id |-> id, column_count |-> column_count]

\* InlineElement::Text
TextElement(is_inlay, string) == [kind |-> "Text", is_inlay |-> is_inlay, text |-> string]

\* InlineElement::Widget
WidgetElement(inlay) == [kind |-> "Widget", id |-> inlay.id, column_count |-> inlay.column_count]

\* InlineElements as a sequence: the items next() returns until None, from
\* the iterator's fields text, inlays and byte_index
RECURSIVE InlineElements(_, _, _)
InlineElements(string, inlays, byte_index) ==
    IF inlays # <<>> /\ Head(inlays).byte_index = byte_index
    THEN << IF Head(inlays).inlay.kind = "Text"
            THEN TextElement(TRUE, Head(inlays).inlay.text)
            ELSE WidgetElement(Head(inlays).inlay) >>
         \o InlineElements(string, Tail(inlays), byte_index)
    ELSE IF string = <<>> THEN <<>>
    ELSE LET to_inlay == IF inlays # <<>>
                         THEN Head(inlays).byte_index - byte_index
                         ELSE Len(string)
             len      == IF to_inlay < Len(string) THEN to_inlay ELSE Len(string)
         IN  << TextElement(FALSE, Take(string, len)) >>
             \o InlineElements(Drop(string, len), inlays, byte_index + len)

\* self.elements.next(): the element returned (<< >> for None) and the
\* elements left
NextElement(elements) == IF elements = <<>> THEN <<>> ELSE << Head(elements) >>

Rest(elements) == IF elements = <<>> THEN <<>> ELSE Tail(elements)

\* WrappedElement::Wrap
WrapMarker == [kind |-> "Wrap"]

\* The panic of `index - self.byte_index` for an index behind byte_index, in a
\* build with overflow checks
Overflow == [kind |-> "Overflow"]

\* WrappedElements as a sequence: the items next() returns until None, from
\* the iterator's fields element (<< >> for None), elements (the inline
\* elements not yet taken), wrap_byte_indices and byte_index.  `checked`
\* tells whether the build checks arithmetic overflow: if not, the
\* difference wraps around and the minimum taken is text.len()
RECURSIVE WrappedElements(_, _, _, _, _)
WrappedElements(element, elements, wrap_byte_indices, byte_index, checked) ==
    IF wrap_byte_indices # <<>> /\ Head(wrap_byte_indices) = byte_index
    THEN << WrapMarker >>
         \o WrappedElements(element, elements, Tail(wrap_byte_indices), byte_index,
                            checked)
    ELSE IF element = <<>> THEN <<>>
    ELSE IF element[1].kind = "Text"
    THEN IF wrap_byte_indices # <<>> /\ Head(wrap_byte_indices) < byte_index /\ checked
         THEN << Overflow >>
         ELSE LET text_    == element[1].text
                  to_index == IF wrap_byte_indices # <<>>
                                 /\ Head(wrap_byte_indices) >= byte_index
                              THEN Head(wrap_byte_indices) - byte_index
                              ELSE Len(text_)
                  len      == IF to_index < Len(text_) THEN to_index ELSE Len(text_)
              IN  IF len < Len(text_)
                  THEN << TextElement(element[1].is_inlay, Take(text_, len)) >>
                       \o WrappedElements(
                              << TextElement(element[1].is_inlay, Drop(text_, len)) >>,
                              elements, wrap_byte_indices, byte_index + len, checked)
                  ELSE << element[1] >>
                       \o WrappedElements(NextElement(elements), Rest(elements),
                                          wrap_byte_indices, byte_index + len, checked)
    ELSE << element[1] >>
         \o WrappedElements(<<>>, elements, wrap_byte_indices, byte_index + 1, checked)

\* Line::wrapped_elements
LineWrappedElements(string, inlays, wrap_byte_indices, checked) ==
    LET elements == InlineElements(string, inlays, 0)
    IN  WrappedElements(NextElement(elements), Rest(elements), wrap_byte_indices, 0,
                        checked)

----------------------------------------------------------------------------
(* str.rs (StrExt): whitespace and display width.  A string is a sequence   *)
(* of one-byte characters                                                   *)

IsWhitespace(c) == c \in {" ", "\t"}

\* The display width of a character: a tab is tab_column_count columns wide
CharColumnCount(c, tab_column_count) == IF c = "\t" THEN tab_column_count ELSE 1

\* StrExt::column_count
RECURSIVE ColumnCount(_, _)
ColumnCount(string, tab_column_count) ==
    IF string = <<>> THEN 0
    ELSE CharColumnCount(Head(string), tab_column_count)
         + ColumnCount(Tail(string), tab_column_count)

\* StrExt::leading_whitespace, None read as "": the whitespace the string
\* starts with
RECURSIVE LeadingWhitespace(_)
LeadingWhitespace(string) ==
    IF string # <<>> /\ IsWhitespace(Head(string))
    THEN << Head(string) >> \o LeadingWhitespace(Tail(string))
    ELSE <<>>

\* The length of the run of characters of one kind (whitespace or not) that
\* the non-empty string starts with
FirstRunLength(string) ==
    CHOOSE n \in 1..Len(string) :
        /\ \A i \in 1..n : IsWhitespace(string[i]) = IsWhitespace(string[1])
        /\ n < Len(string) => IsWhitespace(string[n + 1]) # IsWhitespace(string[1])

\* StrExt::split_whitespace_boundaries as a sequence: the string cut wherever
\* whitespace meets non-whitespace
RECURSIVE SplitWhitespaceBoundaries(_)
SplitWhitespaceBoundaries(string) ==
    IF string = <<>> THEN <<>>
    ELSE << Take(string, FirstRunLength(string)) >>
         \o SplitWhitespaceBoundaries(Drop(string, FirstRunLength(string)))

----------------------------------------------------------------------------
(* wrap.rs *)

\* Faulty variant of IndentationAfterSegments: only the first segment of the
\* text element is compared with max_column_count
IndentationAfterFirstSegment(indentation_width, strings, max_column_count, tab_column_count) ==
    IF strings # <<>>
       /\ indentation_width + ColumnCount(Head(strings), tab_column_count)
            > max_column_count
    THEN 0
    ELSE indentation_width

\* Pass 1, the loop over the segments of one text element: `break` leaves
\* this loop only
RECURSIVE IndentationAfterSegments(_, _, _, _)
IndentationAfterSegments(indentation_width, strings, max_column_count, tab_column_count) ==
    IF strings = <<>> THEN indentation_width
    ELSE IF indentation_width + ColumnCount(Head(strings), tab_column_count)
            > max_column_count
    THEN 0
    ELSE IndentationAfterSegments(indentation_width, Tail(strings),
                                  max_column_count, tab_column_count)

\* Pass 1, the loop over the inline elements: a widget's `break` ends it
RECURSIVE IndentationAfterElements(_, _, _, _)
IndentationAfterElements(indentation_width, elements, max_column_count, tab_column_count) ==
    IF elements = <<>> THEN indentation_width
    ELSE IF Head(elements).kind = "Text"
    THEN IndentationAfterElements(
             IndentationAfterSegments(indentation_width,
                                      SplitWhitespaceBoundaries(Head(elements).text),
                                      max_column_count, tab_column_count),
             Tail(elements), max_column_count, tab_column_count)
    ELSE IF indentation_width + Head(elements).column_count > max_column_count
    THEN 0
    ELSE IndentationAfterElements(indentation_width, Tail(elements),
                                  max_column_count, tab_column_count)

\* Faulty variant of WrapStep: the break is recorded where the row is full,
\* not where the segment starts
WrapStepBreaksAtLimit(acc, column_count, len, max_column_count, indentation_width) ==
    IF acc.column_index + column_count > max_column_count
    THEN [position     |-> acc.position + len,
          column_index |-> indentation_width + column_count,
          positions    |-> Append(acc.positions,
                                  acc.position + (max_column_count - acc.column_index))]
    ELSE [position     |-> acc.position + len,
          column_index |-> acc.column_index + column_count,
          positions    |-> acc.positions]

\* Faulty variant of WrapStep: a continuation row starts at column 0, not at
\* the indentation width
WrapStepForgetsIndentation(acc, column_count, len, max_column_count, indentation_width) ==
    IF acc.column_index + column_count > max_column_count
    THEN [position     |-> acc.position + len,
          column_index |-> column_count,
          positions    |-> Append(acc.positions, acc.position)]
    ELSE [position     |-> acc.position + len,
          column_index |-> acc.column_index + column_count,
          positions    |-> acc.positions]

\* Pass 2, one segment or widget of `column_count` columns and `len` bytes
WrapStep(acc, column_count, len, max_column_count, indentation_width) ==
    IF acc.column_index + column_count > max_column_count
    THEN [position     |-> acc.position + len,
          column_index |-> indentation_width + column_count,
          positions    |-> Append(acc.positions, acc.position)]
    ELSE [position     |-> acc.position + len,
          column_index |-> acc.column_index + column_count,
          positions    |-> acc.positions]

\* Pass 2, the loop over the segments of one text element
RECURSIVE WrapSegments(_, _, _, _, _)
WrapSegments(acc, strings, max_column_count, tab_column_count, indentation_width) ==
    IF strings = <<>> THEN acc
    ELSE WrapSegments(WrapStep(acc, ColumnCount(Head(strings), tab_column_count),
                               Len(Head(strings)), max_column_count, indentation_width),
                      Tail(strings), max_column_count, tab_column_count,
                      indentation_width)

\* Pass 2, the loop over the inline elements
RECURSIVE WrapElements(_, _, _, _, _)
WrapElements(acc, elements, max_column_count, tab_column_count, indentation_width) ==
    IF elements = <<>> THEN acc
    ELSE WrapElements(
             IF Head(elements).kind = "Text"
             THEN WrapSegments(acc, SplitWhitespaceBoundaries(Head(elements).text),
                               max_column_count, tab_column_count, indentation_width)
             ELSE WrapStep(acc, Head(elements).column_count, 1,
                           max_column_count, indentation_width),
             Tail(elements), max_column_count, tab_column_count, indentation_width)

\* wrap: the indentation width returned and the vector `positions` as left
Wrap(string, inlays, max_column_count, tab_column_count, positions) ==
    LET elements == InlineElements(string, inlays, 0)
        indentation_width ==
            IndentationAfterElements(
                ColumnCount(LeadingWhitespace(string), tab_column_count),
                elements, max_column_count, tab_column_count)
        acc == WrapElements([position |-> 0, column_index |-> 0, positions |-> positions],
                            elements, max_column_count, tab_column_count,
                            indentation_width)
    IN  [indentation_width |-> indentation_width, positions |-> acc.positions]

----------------------------------------------------------------------------
(* history.rs: EditKind, EditStack, History *)

None == [tag |-> "None"]

Some(session, kind) == [tag |-> "Some", session |-> session, kind |-> kind]

\* Faulty variant of GroupsWith: every kind groups with every kind
GroupsWithAnyKind(kind, other) == TRUE

\* EditKind::groups_with
GroupsWith(kind, other) == kind = other

\* EditStack::default
EmptyStack == [entries |-> <<>>, changes |-> <<>>]

\* EditStack::push_selection
PushSelection(stack, sel) ==
    [stack EXCEPT !.entries =
        Append(@, [selection |-> sel, changes_start |-> Len(stack.changes)])]

\* EditStack::push_change, past its assertion
PushChange(stack, change) == [stack EXCEPT !.changes = Append(@, change)]

RECURSIVE Reverse(_)
Reverse(s) == IF s = <<>> THEN <<>> ELSE Append(Reverse(Tail(s)), Head(s))

\* Faulty variant of PopUntilSelection: the group's changes drained without .rev()
PopUntilSelectionUnreversed(stack) ==
    LET group == stack.entries[Len(stack.entries)] IN
    [stack     |-> [entries |-> Take(stack.entries, Len(stack.entries) - 1),
                    changes |-> Take(stack.changes, group.changes_start)],
     changes   |-> Drop(stack.changes, group.changes_start),
     selection |-> group.selection]

\* EditStack::pop_until_selection on a stack with an entry: the stack left, the
\* group's changes drained in reverse, the group's selection
PopUntilSelection(stack) ==
    LET group == stack.entries[Len(stack.entries)] IN
    [stack     |-> [entries |-> Take(stack.entries, Len(stack.entries) - 1),
                    changes |-> Take(stack.changes, group.changes_start)],
     changes   |-> Reverse(Drop(stack.changes, group.changes_start)),
     selection |-> group.selection]

\* Faulty variant of ContinuesGroup: the session of the previous edit is not compared
ContinuesGroupAnySession(prev, session, kind) ==
    prev.tag = "Some" /\ GroupsWith(prev.kind, kind)

\* History::edit: whether the edit continues the open group
ContinuesGroup(prev, session, kind) ==
    prev.tag = "Some" /\ prev.session = session /\ GroupsWith(prev.kind, kind)

\* History::edit: the grouping marker and the undo stack it leaves
HistoryEdit(prev, undo, session, kind, sel) ==
    IF ~ContinuesGroup(prev, session, kind)
    THEN [prev_edit |-> Some(session, kind), undo_stack |-> PushSelection(undo, sel)]
    ELSE [prev_edit |-> prev, undo_stack |-> undo]

\* Faulty variant of ClearedStack: History::edit leaves the redo stack as it is
StackKept(stack) == stack

\* History::edit: the redo stack it leaves (EditStack::clear)
ClearedStack(stack) == EmptyStack

\* Edit::apply_change on acc = the text, the undo stack and the change log so
\* far.  The inversion and the application index the text (panic when out of
\* bounds), then push_change asserts that a group is open.
EditApplyChange(acc, change) ==
    IF acc.panic # "none" THEN acc
    ELSE IF ~ChangeInBounds(acc.text, change)
    THEN [acc EXCEPT !.panic = "index_out_of_bounds"]
    ELSE IF acc.stack.entries = <<>>
    THEN [acc EXCEPT !.panic = "assert_entries_not_empty"]
    ELSE [text    |-> TextApplyChange(acc.text, change),
          stack   |-> PushChange(acc.stack, Invert(change, acc.text)),
          changes |-> Append(acc.changes, change),
          panic   |-> "none"]

\* The loop of History::undo / History::redo over the popped changes: each is
\* inverted against the text, applied, and its inverse pushed on the other stack.
RECURSIVE ApplyPopped(_, _)
ApplyPopped(acc, changes) ==
    IF changes = <<>> THEN acc
    ELSE ApplyPopped(EditApplyChange(acc, Head(changes)), Tail(changes))

\* Faulty variant of HistoryUndo: the popped group's selection, not the caller's, is
\* pushed on the `to` stack
HistoryUndoPushesPopped(lines, from, to, sel) ==
    LET popped == PopUntilSelection(from)
        acc    == ApplyPopped([text |-> lines,
                               stack |-> PushSelection(to, popped.selection),
                               changes |-> <<>>, panic |-> "none"], popped.changes)
    IN  [text |-> acc.text, from |-> popped.stack, to |-> acc.stack,
         changes |-> acc.changes, panic |-> acc.panic, selection |-> popped.selection]

\* History::undo and History::redo on a non-empty `from` stack: pop the group,
\* push the caller's selection on the `to` stack, run the loop
HistoryUndo(lines, from, to, sel) ==
    LET popped == PopUntilSelection(from)
        acc    == ApplyPopped([text |-> lines, stack |-> PushSelection(to, sel),
                               changes |-> <<>>, panic |-> "none"], popped.changes)
    IN  [text |-> acc.text, from |-> popped.stack, to |-> acc.stack,
         changes |-> acc.changes, panic |-> acc.panic, selection |-> popped.selection]

----------------------------------------------------------------------------
(* state.rs: State *)

\* The changes State::insert and State::delete make for one region
RegionChanges(kind, region, t) ==
    IF kind = "Insert"
    THEN << Delete(RegionStart(region), RegionLength(region)),
            Insert(RegionStart(region), t) >>
    ELSE << Delete(RegionStart(region), RegionLength(region)) >>

\* State::edit: the loop over the regions of the editing session's selection
RECURSIVE EditRegions(_, _, _, _)
EditRegions(acc, regions, kind, t) ==
    IF regions = <<>> THEN acc
    ELSE EditRegions(ApplyPopped(acc, RegionChanges(kind, Head(regions), t)),
                     Tail(regions), kind, t)

\* Faulty variant of SelectionsAfter: every session of the document adopts the
\* replacement selection
SelectionsAfterAllAdopt(sels, session, changes, replacement) ==
    [s \in Sessions |->
        IF replacement # <<>>
        THEN replacement
        ELSE SelectionApplyChanges(sels[s], changes)]

\* Session::update_after_text_modified for every session of the document:
\* the editing session adopts `replacement` when there is one (<<>> stands
\* for None: a Selection always holds a region)
SelectionsAfter(sels, session, changes, replacement) ==
    [s \in Sessions |->
        IF s = session /\ replacement # <<>>
        THEN replacement
        ELSE SelectionApplyChanges(sels[s], changes)]

\* The per-line cache arrays of a Session viewing `lines`, before any of them
\* is computed: one entry per line in each array
NewCaches(lines) ==
    [column_count           |-> [i \in 1..Len(lines) |-> 0],
     fold_column_index      |-> [i \in 1..Len(lines) |-> 0],
     fold_scale             |-> [i \in 1..Len(lines) |-> 1],
     wrap_byte_indices      |-> [i \in 1..Len(lines) |-> <<>>],
     wrap_indentation_width |-> [i \in 1..Len(lines) |-> 0]]

\* A log entry: the operation, the session it was called for, the text it
\* was given (State::insert) and the text, the selections and the number of
\* undo groups it started from.  `setup` marks an operation that ran before
\* the behaviour starts.
LogEntry(op, session, arg, lines, sels, undo, setup) ==
    [op |-> op, session |-> session, arg |-> arg, text |-> lines,
     selection |-> sels, depth |-> Len(undo.entries), setup |-> setup]

Logged(op, session, arg) ==
    Append(log, LogEntry(op, session, arg, text, selection, undo_stack, FALSE))

OpsRun == Len(SelectSeq(log, LAMBDA e : ~e.setup))

Running == panic = "none" /\ OpsRun < MaxOps

Abort(reason) ==
    /\ panic' = reason
    /\ UNCHANGED <<text, prev_edit, undo_stack, redo_stack, selection, last_added_region, caches, call, ret>>

\* Faulty variant of ModifySelection: the redo stack is cleared, as an edit
\* clears it
ModifySelectionClearsRedo(session, regions, index) ==
    /\ selection' = [selection EXCEPT ![session] = regions]
    /\ last_added_region' = [last_added_region EXCEPT ![session] = index]
    /\ prev_edit' = None
    /\ redo_stack' = EmptyStack
    /\ UNCHANGED <<text, undo_stack, panic, caches, call, ret>>

\* State::modify_selection: the session's selection and last-added index as
\* the closure left them, then History::force_new_undo_group
ModifySelection(session, regions, index) ==
    /\ selection' = [selection EXCEPT ![session] = regions]
    /\ last_added_region' = [last_added_region EXCEPT ![session] = index]
    /\ prev_edit' = None
    /\ UNCHANGED <<text, undo_stack, redo_stack, panic, caches, call, ret>>

\* State::set_cursor
SetCursor(session, cursor) ==
    /\ Running
    /\ log' = Logged("set_cursor", session, <<>>)
    /\ ModifySelection(session, << RegionFromCursor(cursor) >>, 0)

\* State::add_cursor
AddCursor(session, cursor) ==
    /\ Running
    /\ log' = Logged("add_cursor", session, <<>>)
    /\ \E index \in AddIndices(selection[session], cursor.position) :
          ModifySelection(session,
                          InsertAt(selection[session], index, RegionFromCursor(cursor)),
                          index)

\* State::update_last_added_cursor
UpdateLastAddedCursor(session, cursor, reset_anchor) ==
    /\ Running
    /\ log' = Logged("update_last_added_cursor", session, <<>>)
    /\ LET regions == selection[session]
           index   == last_added_region[session]
       IN  IF index >= Len(regions)
           THEN Abort("index_out_of_bounds")
           ELSE LET r == SelectionUpdate(regions, index,
                             WithCursor(regions[index + 1], cursor, reset_anchor))
                IN  ModifySelection(session, r.regions, r.index)

\* State::move_all_cursors with f = move_ops::move_left or move_ops::move_right
MoveAllCursors(session, reset_anchor, right) ==
    LET regions == selection[session]
        ok(c)   == IF right THEN MoveRightInBounds(c, text) ELSE MoveLeftInBounds(c, text)
        f(c)    == IF right THEN MoveRight(c, text) ELSE MoveLeft(c, text)
    IN  IF \E i \in 1..Len(regions) : ~ok(regions[i].cursor)
        THEN Abort("index_out_of_bounds")
        ELSE LET moved == [i \in 1..Len(regions) |->
                              WithCursor(regions[i], f(regions[i].cursor), reset_anchor)]
                 r     == UpdateAllMerge(moved, last_added_region[session], 0)
             IN  IF r.panic # "none"
                 THEN Abort(r.panic)
                 ELSE ModifySelection(session, r.regions, r.index)

\* State::move_all_cursors_left
MoveAllCursorsLeft(session, reset_anchor) ==
    /\ Running
    /\ log' = Logged("move_all_cursors_left", session, <<>>)
    /\ MoveAllCursors(session, reset_anchor, FALSE)

\* State::move_all_cursors_right
MoveAllCursorsRight(session, reset_anchor) ==
    /\ Running
    /\ log' = Logged("move_all_cursors_right", session, <<>>)
    /\ MoveAllCursors(session, reset_anchor, TRUE)

\* State::edit through State::modify_text, from the given text, grouping
\* marker, stacks and selections: what it leaves
EditOutcome(lines, prev, undo, redo, sels, session, kind, t) ==
    LET h   == HistoryEdit(prev, undo, session, kind, sels[session])
        acc == EditRegions([text |-> lines, stack |-> h.undo_stack,
                            changes |-> <<>>, panic |-> "none"],
                           sels[session], kind, t)
    IN  [text       |-> acc.text,
         prev_edit  |-> h.prev_edit,
         undo_stack |-> acc.stack,
         redo_stack |-> ClearedStack(redo),
         selection  |-> SelectionsAfter(sels, session, acc.changes, <<>>),
         panic      |-> acc.panic]

Edit(session, kind, t) ==
    LET e == EditOutcome(text, prev_edit, undo_stack, redo_stack, selection,
                         session, kind, t)
    IN  IF e.panic # "none"
        THEN Abort(e.panic)
        ELSE /\ text' = e.text
             /\ prev_edit' = e.prev_edit
             /\ undo_stack' = e.undo_stack
             /\ redo_stack' = e.redo_stack
             /\ selection' = e.selection
             /\ UNCHANGED <<last_added_region, panic, caches, call, ret>>

\* State::insert
StateInsert(session, t) ==
    /\ Running
    /\ log' = Logged("insert", session, t)
    /\ Edit(session, "Insert", t)

\* State::delete
StateDelete(session) ==
    /\ Running
    /\ log' = Logged("delete", session, <<>>)
    /\ Edit(session, "Delete", <<>>)

\* Faulty variant of StateUndo: an undo that finds no group still starts a new undo
\* group (clears the grouping marker)
StateUndoClearsMarker(session) ==
    /\ Running
    /\ log' = Logged("undo", session, <<>>)
    /\ IF undo_stack.entries = <<>>
       THEN /\ prev_edit' = None
            /\ UNCHANGED <<text, undo_stack, redo_stack, selection,
                           last_added_region, panic,
                           caches, call, ret>>
       ELSE LET u == HistoryUndo(text, undo_stack, redo_stack, selection[session])
            IN  /\ text' = u.text
                /\ undo_stack' = u.from
                /\ redo_stack' = u.to
                /\ selection' = SelectionsAfter(selection, session, u.changes, u.selection)
                /\ UNCHANGED <<prev_edit, last_added_region, panic, caches, call, ret>>

\* State::undo through State::modify_text
StateUndo(session) ==
    /\ Running
    /\ log' = Logged("undo", session, <<>>)
    /\ IF undo_stack.entries = <<>>
       THEN UNCHANGED <<text, prev_edit, undo_stack, redo_stack, selection,
                        last_added_region, panic,
                        caches, call, ret>>
       ELSE LET u == HistoryUndo(text, undo_stack, redo_stack, selection[session])
            IN  IF u.panic # "none"
                THEN Abort(u.panic)
                ELSE /\ text' = u.text
                     /\ undo_stack' = u.from
                     /\ redo_stack' = u.to
                     /\ selection' = SelectionsAfter(selection, session, u.changes, u.selection)
                     /\ UNCHANGED <<prev_edit, last_added_region, panic, caches, call, ret>>

\* State::redo through State::modify_text
StateRedo(session) ==
    /\ Running
    /\ log' = Logged("redo", session, <<>>)
    /\ IF redo_stack.entries = <<>>
       THEN UNCHANGED <<text, prev_edit, undo_stack, redo_stack, selection,
                        last_added_region, panic,
                        caches, call, ret>>
       ELSE LET u == HistoryUndo(text, redo_stack, undo_stack, selection[session])
            IN  IF u.panic # "none"
                THEN Abort(u.panic)
                ELSE /\ text' = u.text
                     /\ redo_stack' = u.from
                     /\ undo_stack' = u.to
                     /\ selection' = SelectionsAfter(selection, session, u.changes, u.selection)
                     /\ UNCHANGED <<prev_edit, last_added_region, panic, caches, call, ret>>

----------------------------------------------------------------------------
(* The inputs and the initial states *)

\* No function is being called on its own
Idle == [fn |-> "none"]

\* The call has not returned yet
Pending == [done |-> FALSE]

\* The texts State::insert is called with: "x" and "y\n"
InsertTexts == { << <<"x">> >>, << <<"y">>, <<>> >> }

\* The cursors the cursor operations are called with, when valid in the text
CursorInputs ==
    {c \in {Cursor(Pos(0, 1), "After"), Cursor(Pos(1, 0), "Before")} :
        PointInBounds(text, c.position)}

\* A region from anchor (l1, b1) forward to cursor (l2, b2)
Fwd(l1, b1, l2, b2) == Region(Cursor(Pos(l2, b2), "Before"), Pos(l1, b1))

\* A region from anchor (l2, b2) backward to cursor (l1, b1)
Bwd(l1, b1, l2, b2) == Region(Cursor(Pos(l1, b1), "Before"), Pos(l2, b2))

\* The first session with the given regions, the others at the default
FirstSession(regions) ==
    [s \in Sessions |-> IF s = 1 THEN regions ELSE DefaultSelection]

\* The state State::insert(1, "x") leaves when run on the default document
AfterInsert ==
    EditOutcome(DefaultText, None, EmptyStack, EmptyStack,
                FirstSession(DefaultSelection), 1, "Insert", << <<"x">> >>)

\* The states a behaviour starts from.  Each is History::from(text) with the
\* first session's selection as the host's cursor operations left it
\* (set_cursor, update_last_added_cursor, add_cursor); the last one has also
\* run State::insert(1, "x"), which its log records.
InitConfigs ==
    { [text |-> DefaultText, selection |-> FirstSession(DefaultSelection),
       last |-> 0, prev_edit |-> None, undo_stack |-> EmptyStack, log |-> <<>>],
      [text |-> << <<"a", "b", "c", "d", "e", "f">> >>,
       selection |-> FirstSession(<< Fwd(0, 0, 0, 2), Bwd(0, 3, 0, 4) >>),
       last |-> 1, prev_edit |-> None, undo_stack |-> EmptyStack, log |-> <<>>],
      [text |-> << <<"a", "b", "c", "d">> >>,
       selection |-> FirstSession(<< Fwd(0, 1, 0, 1), Fwd(0, 3, 0, 3) >>),
       last |-> 1, prev_edit |-> None, undo_stack |-> EmptyStack, log |-> <<>>],
      [text |-> AfterInsert.text, selection |-> AfterInsert.selection,
       last |-> 0, prev_edit |-> AfterInsert.prev_edit,
       undo_stack |-> AfterInsert.undo_stack,
       log |-> << LogEntry("insert", 1, << <<"x">> >>, DefaultText,
                           FirstSession(DefaultSelection), EmptyStack, TRUE) >>] }

Init ==
    \E cfg \in InitConfigs :
        /\ text = cfg.text
        /\ prev_edit = cfg.prev_edit
        /\ undo_stack = cfg.undo_stack
        /\ redo_stack = EmptyStack
        /\ selection = cfg.selection
        /\ last_added_region = [s \in Sessions |-> IF s = 1 THEN cfg.last ELSE 0]
        /\ caches = [s \in Sessions |-> NewCaches(cfg.text)]
        /\ panic = "none"
        /\ log = cfg.log
        /\ call = Idle
        /\ ret = Pending

Next ==
    \E session \in Sessions :
        \/ \E cursor \in CursorInputs : SetCursor(session, cursor)
        \/ \E cursor \in CursorInputs : AddCursor(session, cursor)
        \/ \E cursor \in CursorInputs, reset_anchor \in BOOLEAN :
              UpdateLastAddedCursor(session, cursor, reset_anchor)
        \/ \E reset_anchor \in BOOLEAN : MoveAllCursorsLeft(session, reset_anchor)
        \/ \E reset_anchor \in BOOLEAN : MoveAllCursorsRight(session, reset_anchor)
        \/ \E t \in InsertTexts : StateInsert(session, t)
        \/ StateDelete(session)
        \/ StateUndo(session)
        \/ StateRedo(session)

Spec == Init /\ [][Next]_vars

----------------------------------------------------------------------------
(* The functions of text.rs called on their own: Position::apply_change and *)
(* the round trip through Change::invert and Text::apply_change             *)

\* The program is not running: the default document with no operation run
AtRest ==
    /\ text = DefaultText
    /\ prev_edit = None
    /\ undo_stack = EmptyStack
    /\ redo_stack = EmptyStack
    /\ selection = [s \in Sessions |-> DefaultSelection]
    /\ last_added_region = [s \in Sessions |-> 0]
    /\ caches = [s \in Sessions |-> NewCaches(DefaultText)]
    /\ panic = "none"
    /\ log = <<>>

\* Largest line index and line count of the positions and lengths called with
MaxLine == 2

\* Largest byte index and byte count of the positions and lengths called with
MaxByte == 3

Positions == {Pos(l, b) : l \in 0..MaxLine, b \in 0..MaxByte}

Lengths == {Len2(l, b) : l \in 0..MaxLine, b \in 0..MaxByte}

\* The texts inserted: "", "x", "xy", "x\n", "\ny", "x\n\nyz"
InsertedTexts ==
    { << <<>> >>, << <<"x">> >>, << <<"x", "y">> >>, << <<"x">>, <<>> >>,
      << <<>>, <<"y">> >>, << <<"x">>, <<>>, <<"y", "z">> >> }

\* The texts changed: "", "ab", "ab\nc", "a\n\nbc", "\nabc\n"
ChangedTexts ==
    { DefaultText, << <<"a", "b">> >>, << <<"a", "b">>, <<"c">> >>,
      << <<"a">>, <<>>, <<"b", "c">> >>, << <<>>, <<"a", "b", "c">>, <<>> >> }

Changes ==
    {Insert(position, t) : position \in Positions, t \in InsertedTexts}
    \cup {Delete(start, length) : start \in Positions, length \in Lengths}

PositionCall(position, change, drift) ==
    [fn |-> "Position::apply_change", position |-> position, change |-> change,
     drift |-> drift]

InvertCall(lines, change) == [fn |-> "Change::invert", text |-> lines, change |-> change]

\* position.apply_change(&change, drift)
RunPositionApplyChange ==
    /\ call.fn = "Position::apply_change"
    /\ ret = Pending
    /\ ret' = [done  |-> TRUE,
               value |-> PositionApplyChange(call.position, call.change, call.drift)]
    /\ UNCHANGED <<text, prev_edit, undo_stack, redo_stack, selection,
                   last_added_region, caches, panic, log, call>>

\* inverse = change.invert(&text); text.apply_change(change);
\* text.apply_change(inverse), as Edit::apply_change and History::undo do
RunInvertRoundTrip ==
    /\ call.fn = "Change::invert"
    /\ ret = Pending
    /\ LET inverse == Invert(call.change, call.text)
           applied == TextApplyChange(call.text, call.change)
           ok      == ChangeInBounds(applied, inverse)
       IN  ret' = [done      |-> TRUE,
                   inverse   |-> inverse,
                   applied   |-> applied,
                   in_bounds |-> ok,
                   restored  |-> IF ok THEN TextApplyChange(applied, inverse) ELSE <<>>]
    /\ UNCHANGED <<text, prev_edit, undo_stack, redo_stack, selection,
                   last_added_region, caches, panic, log, call>>

\* Change::invert is called with the changes Text::apply_change accepts
TextInit ==
    /\ AtRest
    /\ ret = Pending
    /\ \E change \in Changes :
          \/ \E position \in Positions, drift \in {"Before", "After"} :
                call = PositionCall(position, change, drift)
          \/ \E lines \in ChangedTexts :
                /\ ChangeInBounds(lines, change)
                /\ call = InvertCall(lines, change)

TextNext == RunPositionApplyChange \/ RunInvertRoundTrip

SpecText == TextInit /\ [][TextNext]_vars

----------------------------------------------------------------------------
(* The functions of selection.rs called on their own: Region::apply_change, *)
(* Selection::update and Selection::update_all                              *)

\* Most regions of a selection called with
MaxRegions == 3

\* Largest byte index of the regions of a selection called with
MaxColumn == 2

\* The regions remapped: cursor and anchor anywhere, in either order
RemappedRegions ==
    {Region(Cursor(position, "Before"), anchor) :
        position \in Positions, anchor \in Positions}

\* The regions of the selections updated: on the first line, forward,
\* backward or empty
LineRegions ==
    {Region(Cursor(Pos(0, c), "Before"), Pos(0, a)) :
        c \in 0..MaxColumn, a \in 0..MaxColumn}

\* The selections updated: any 1..MaxRegions regions in any order
LineSelections == UNION {[1..n -> LineRegions] : n \in 1..MaxRegions}

RegionCall(region, change) ==
    [fn |-> "Region::apply_change", region |-> region, change |-> change]

\* selection.update(index, f): f is given by the region it returns
UpdateCall(regions, index, new_region) ==
    [fn |-> "Selection::update", regions |-> regions, index |-> index,
     new_region |-> new_region]

\* selection.update_all(index, f): f is given by the regions it returns for
\* the regions of the selection, in order
UpdateAllCall(mapped, index) ==
    [fn |-> "Selection::update_all", mapped |-> mapped, index |-> index]

\* self.merge_with(other), called as update_all calls it: self is not after
\* other
MergeCall(region, other) ==
    [fn |-> "Region::merge_with", region |-> region, other |-> other]

\* region.apply_change(&change)
RunRegionApplyChange ==
    /\ call.fn = "Region::apply_change"
    /\ ret = Pending
    /\ ret' = [done |-> TRUE, region |-> RegionApplyChange(call.region, call.change)]
    /\ UNCHANGED <<text, prev_edit, undo_stack, redo_stack, selection,
                   last_added_region, caches, panic, log, call>>

\* region.merge_with(other): None is the empty sequence, Some(r) is << r >>
RunRegionMergeWith ==
    /\ call.fn = "Region::merge_with"
    /\ ret = Pending
    /\ ret' = [done |-> TRUE,
               merged |-> IF OverlapsWith(call.region, call.other)
                          THEN << MergeWith(call.region, call.other) >>
                          ELSE << >>]
    /\ UNCHANGED <<text, prev_edit, undo_stack, redo_stack, selection,
                   last_added_region, caches, panic, log, call>>

\* index = selection.update(index, f)
RunSelectionUpdate ==
    /\ call.fn = "Selection::update"
    /\ ret = Pending
    /\ LET r == SelectionUpdate(call.regions, call.index, call.new_region)
       IN  ret' = [done |-> TRUE, regions |-> r.regions, index |-> r.index]
    /\ UNCHANGED <<text, prev_edit, undo_stack, redo_stack, selection,
                   last_added_region, caches, panic, log, call>>

\* index = selection.update_all(index, f)
RunSelectionUpdateAll ==
    /\ call.fn = "Selection::update_all"
    /\ ret = Pending
    /\ LET r == UpdateAllMerge(call.mapped, call.index, 0)
       IN  ret' = [done |-> TRUE, regions |-> r.regions, index |-> r.index,
                   panic |-> r.panic]
    /\ UNCHANGED <<text, prev_edit, undo_stack, redo_stack, selection,
                   last_added_region, caches, panic, log, call>>

SelectionInit ==
    /\ AtRest
    /\ ret = Pending
    /\ \/ \E region \in RemappedRegions, position \in Positions, t \in InsertedTexts :
             call = RegionCall(region, Insert(position, t))
       \/ \E region \in LineRegions, other \in LineRegions :
             /\ PosLe(RegionStart(region), RegionStart(other))
             /\ call = MergeCall(region, other)
       \/ \E regions \in LineSelections, new_region \in LineRegions :
             \E index \in 0..(Len(regions) - 1) :
                call = UpdateCall(regions, index, new_region)
       \/ \E mapped \in LineSelections :
             \E index \in 0..(Len(mapped) - 1) :
                call = UpdateAllCall(mapped, index)

SelectionNext ==
    \/ RunRegionApplyChange
    \/ RunRegionMergeWith
    \/ RunSelectionUpdate
    \/ RunSelectionUpdateAll

SpecSelection == SelectionInit /\ [][SelectionNext]_vars

----------------------------------------------------------------------------
(* wrap called on its own *)

\* Longest line wrapped, in bytes
MaxLineLen == 5

\* Largest max_column_count wrapped to
MaxColumns == 4

\* The lines wrapped: every string of up to MaxLineLen letters, blanks and tabs
WrappedLines == UNION {[1..n -> {"a", " ", "\t"}] : n \in 0..MaxLineLen}

Inlay(byte_index, inlay) == [byte_index |-> byte_index, inlay |-> inlay]

\* The inlay tables of the line wrapped, each ordered by byte offset
InlayTables ==
    { <<>>,
      << Inlay(0, WidgetInlay(1, 2)) >>,
      << Inlay(2, TextInlay(<<"b", " ", "b">>)) >>,
      << Inlay(1, WidgetInlay(1, 3)), Inlay(3, TextInlay(<<" ">>)) >>,
      << Inlay(2, TextInlay(<<"b", "b">>)), Inlay(2, WidgetInlay(2, 1)) >> }

WrapCall(string, inlays, max_column_count, tab_column_count, positions) ==
    [fn |-> "wrap", text |-> string, inlays |-> inlays,
     max_column_count |-> max_column_count, tab_column_count |-> tab_column_count,
     positions |-> positions]

\* wrap("aaaa bbbb cccc", 9, 4, [])
WrapExample ==
    WrapCall(<<"a", "a", "a", "a", " ", "b", "b", "b", "b", " ", "c", "c", "c", "c">>,
             <<>>, 9, 4, <<>>)


\* indentation_width = wrap(line, max_column_count, tab_column_count, &mut positions)
RunWrap ==
    /\ call.fn = "wrap"
    /\ ret = Pending
    /\ LET w == Wrap(call.text, call.inlays, call.max_column_count,
                     call.tab_column_count, call.positions)
       IN  ret' = [done              |-> TRUE,
                   indentation_width |-> w.indentation_width,
                   positions         |-> w.positions]
    /\ UNCHANGED <<text, prev_edit, undo_stack, redo_stack, selection,
                   last_added_region, caches, panic, log, call>>

\* line.wrapped_elements() of a line whose wrap_byte_indices wrap has written
WrappedCall(string, inlays, wrap_byte_indices) ==
    [fn |-> "Line::wrapped_elements", text |-> string, inlays |-> inlays,
     wrap_byte_indices |-> wrap_byte_indices]

\* line.wrapped_elements().collect()
RunWrappedElements ==
    /\ call.fn = "Line::wrapped_elements"
    /\ ret = Pending
    /\ \E checked \in BOOLEAN :
          ret' = [done     |-> TRUE,
                  elements |-> LineWrappedElements(call.text, call.inlays,
                                                   call.wrap_byte_indices, checked)]
    /\ UNCHANGED <<text, prev_edit, undo_stack, redo_stack, selection,
                   last_added_region, caches, panic, log, call>>

\* `positions` is empty or holds an earlier break when wrap is called
WrapInit ==
    /\ AtRest
    /\ ret = Pending
    /\ \/ \E string \in WrappedLines, inlays \in InlayTables,
             max_column_count \in 2..MaxColumns, positions \in {<<>>, <<3>>} :
             call = WrapCall(string, inlays, max_column_count, 2, positions)
       \/ call = WrapExample
       \/ \E string \in WrappedLines, inlays \in InlayTables,
             max_column_count \in 2..MaxColumns :
             call = WrappedCall(string, inlays,
                                Wrap(string, inlays, max_column_count, 2, <<>>).positions)

WrapNext == RunWrap \/ RunWrappedElements

SpecWrap == WrapInit /\ [][WrapNext]_vars

----------------------------------------------------------------------------
(* Properties *)

N == Len(log)

IsEdit(e) == e.op \in {"insert", "delete"}

IsMove(e) == e.op \in {"move_all_cursors_left", "move_all_cursors_right"}

IsCursorOp(e) ==
    e.op \in {"set_cursor", "add_cursor", "update_last_added_cursor",
              "move_all_cursors_left", "move_all_cursors_right"}

\* The number of undo groups after the i-th logged operation
DepthAfter(i) == IF i < N THEN log[i + 1].depth ELSE Len(undo_stack.entries)

\* The i-th logged operation pushed a new undo group
Opened(i) == DepthAfter(i) = log[i].depth + 1

\* The step runs operation `op`
Runs(op) == Len(log') = Len(log) + 1 /\ log'[Len(log')].op = op

\* The program state proper, without the log
core == <<text, prev_edit, undo_stack, redo_stack, selection, last_added_region, panic>>

\* log[i..j] are edits by one session and log[j+1..N] are undos by it
EditsThenUndos(i, j) ==
    /\ i <= j /\ j < N
    /\ \A m \in i..j : IsEdit(log[m]) /\ log[m].session = log[i].session
    /\ \A m \in (j + 1)..N : log[m].op = "undo" /\ log[m].session = log[i].session

RestoredTo(i) ==
    /\ text = log[i].text
    /\ selection[log[i].session] = log[i].selection[log[i].session]

\* C1 as stated: from any reachable state, edits by one session followed by
\* one undo per undo group the edits went into restore the text and the
\* session's selection to what they were before the first edit.
C1_RoundTripFromAnyState ==
    panic = "none" =>
        \A i \in 1..N, j \in 1..N :
            ( /\ EditsThenUndos(i, j)
              /\ N - j = Cardinality({m \in i..j : Opened(m)})
                         + (IF Opened(i) THEN 0 ELSE 1) )
            => RestoredTo(i)

\* C1 amended: when the first edit opens a new undo group, edits by one
\* session followed by one undo per undo group they opened restore the text
\* and the session's selection to what they were before the first edit.
C1_RoundTrip ==
    panic = "none" =>
        \A i \in 1..N, j \in 1..N :
            ( /\ EditsThenUndos(i, j)
              /\ Opened(i)
              /\ N - j = Cardinality({m \in i..j : Opened(m)}) )
            => RestoredTo(i)

\* Two edits in two undo groups were undone by two undos, and the edits had
\* changed the text.
C1_Witness ==
    /\ panic = "none"
    /\ \E i \in 1..N, j \in 1..N :
          /\ EditsThenUndos(i, j)
          /\ Opened(i)
          /\ N - j = 2
          /\ Cardinality({m \in i..j : Opened(m)}) = 2
          /\ log[j].text # log[i].text
          /\ RestoredTo(i)

\* C2: undo on a non-empty undo stack followed at once by redo, both by the
\* same session, leaves the text and that session's selection as they were
\* before the undo.
C2_UndoRedo ==
    ( /\ panic = "none"
      /\ N >= 2
      /\ log[N].op = "redo" /\ log[N - 1].op = "undo"
      /\ log[N].session = log[N - 1].session
      /\ log[N - 1].depth > 0 )
    => /\ text = log[N - 1].text
       /\ selection[log[N].session] = log[N - 1].selection[log[N].session]

\* An undo that changed the text and the selection was redone.
C2_Witness ==
    /\ panic = "none"
    /\ N >= 2
    /\ log[N].op = "redo" /\ log[N - 1].op = "undo"
    /\ log[N].session = log[N - 1].session
    /\ log[N - 1].depth > 0
    /\ log[N].text # log[N - 1].text
    /\ log[N].selection[log[N].session] # log[N - 1].selection[log[N].session]
    /\ text = log[N - 1].text

\* log[i] and log[k] are inserts by one session
InsertsBySameSession(i, k) ==
    /\ log[i].op = "insert" /\ log[k].op = "insert"
    /\ log[i].session = log[k].session

\* log[x] is a cursor operation, or an edit by another session than log[i]'s
Intervenes(x, i) ==
    \/ IsCursorOp(log[x])
    \/ IsEdit(log[x]) /\ log[x].session # log[i].session

\* C3: two consecutive inserts by one session go into one undo group, and a
\* single undo reverts both; with a cursor operation or another session's
\* edit between them the later insert opens its own group, and a single undo
\* reverts only the later insert.
C3_Grouping ==
    panic = "none" =>
        /\ (N >= 2 /\ InsertsBySameSession(N - 1, N)) => ~Opened(N)
        /\ ( /\ N >= 3 /\ log[N].op = "undo"
             /\ InsertsBySameSession(N - 2, N - 1)
             /\ Opened(N - 2) )
           => text = log[N - 2].text
        /\ (N >= 3 /\ InsertsBySameSession(N - 2, N) /\ Intervenes(N - 1, N))
           => Opened(N)
        /\ ( /\ N >= 4 /\ log[N].op = "undo"
             /\ InsertsBySameSession(N - 3, N - 1)
             /\ Intervenes(N - 2, N - 1) )
           => text = log[N - 1].text

\* A single undo reverted the later of two inserts separated by a cursor
\* operation or another session's edit, and left the earlier one in the text.
C3_Witness ==
    /\ panic = "none"
    /\ N >= 4 /\ log[N].op = "undo"
    /\ InsertsBySameSession(N - 3, N - 1)
    /\ Intervenes(N - 2, N - 1)
    /\ text = log[N - 1].text
    /\ text # log[N - 3].text
    /\ log[N].text # text

\* The regions are in-bounds spans of `lines`, sorted, and no two overlap
SeparateSpans(lines, regions) ==
    /\ \A i \in 1..Len(regions) :
          /\ PointInBounds(lines, RegionStart(regions[i]))
          /\ PointInBounds(lines, RegionEnd(regions[i]))
    /\ \A i \in 1..Len(regions), j \in 1..Len(regions) :
          i < j => PosLe(RegionEnd(regions[i]), RegionStart(regions[j]))

\* `lines` with the span of every region replaced by `t`, the spans located
\* in `lines` (last region first, so that earlier spans keep their place)
RECURSIVE ReplaceSpans(_, _, _)
ReplaceSpans(lines, regions, t) ==
    IF regions = <<>> THEN lines
    ELSE LET r == regions[Len(regions)] IN
         ReplaceSpans(
             TextInsert(TextDelete(lines, RegionStart(r), RegionLength(r)),
                        RegionStart(r), t),
             Take(regions, Len(regions) - 1), t)

\* C4: State::delete on several non-overlapping regions removes exactly the
\* bytes of every region's span of the pre-edit text, in one undo group, and
\* a single undo restores the text and the multi-region selection.
C4_DeleteRemovesSpans ==
    /\ ( /\ N >= 1 /\ log[N].op = "delete"
         /\ Len(log[N].selection[log[N].session]) >= 2
         /\ SeparateSpans(log[N].text, log[N].selection[log[N].session]) )
       => /\ panic = "none"
          /\ text = ReplaceSpans(log[N].text, log[N].selection[log[N].session],
                                 DefaultText)
          /\ Len(undo_stack.entries) <= log[N].depth + 1
    /\ ( /\ N >= 2 /\ log[N].op = "undo" /\ log[N - 1].op = "delete"
         /\ log[N].session = log[N - 1].session
         /\ Len(log[N - 1].selection[log[N].session]) >= 2
         /\ SeparateSpans(log[N - 1].text, log[N - 1].selection[log[N].session])
         /\ panic = "none" )
       => /\ text = log[N - 1].text
          /\ selection[log[N].session] = log[N - 1].selection[log[N].session]

\* C5: State::insert(session, t) replaces every region's span, as located in
\* the pre-edit text, by t.
C5_InsertReplacesSpans ==
    ( /\ N >= 1 /\ log[N].op = "insert"
      /\ SeparateSpans(log[N].text, log[N].selection[log[N].session]) )
    => /\ panic = "none"
       /\ text = ReplaceSpans(log[N].text, log[N].selection[log[N].session],
                              log[N].arg)

\* C6: every session's regions are sorted by start() and no two overlap
\* (empty regions may abut).
C6_SelectionInvariant ==
    \A s \in Sessions :
        \A i \in 1..Len(selection[s]), j \in 1..Len(selection[s]) :
            i < j => /\ PosLe(RegionStart(selection[s][i]), RegionStart(selection[s][j]))
                     /\ PosLe(RegionEnd(selection[s][i]), RegionStart(selection[s][j]))

\* C7: an undo on an empty undo stack, and a redo on an empty redo stack,
\* changes nothing: not the text, a selection, a stack or the grouping marker.
C7_EmptyUndoRedoNoOp ==
    [][ ( \/ Runs("undo") /\ undo_stack.entries = <<>>
          \/ Runs("redo") /\ redo_stack.entries = <<>> )
        => UNCHANGED core ]_vars

\* An undo ran on an empty undo stack while a grouping marker and a redo
\* group were there to lose.
C7_Witness ==
    /\ N >= 1 /\ log[N].op = "undo" /\ log[N].depth = 0
    /\ prev_edit # None
    /\ redo_stack.entries # <<>>
    /\ panic = "none"

\* C8: an insert or delete leaves the redo stack empty, and a redo that
\* follows it at once changes nothing.
C8_EditClearsRedo ==
    [][ /\ ((Runs("insert") \/ Runs("delete")) /\ panic' = "none")
           => redo_stack' = EmptyStack
        /\ (N >= 1 /\ IsEdit(log[N]) /\ Runs("redo"))
           => UNCHANGED core ]_vars

\* A redo ran right after an edit that followed an undo of a group.
C8_Witness ==
    /\ panic = "none"
    /\ N >= 3
    /\ log[N].op = "redo" /\ IsEdit(log[N - 1])
    /\ log[N - 2].op = "undo" /\ log[N - 2].depth > 0
    /\ log[N - 1].text # log[N - 2].text

\* log[i] and log[k] are an insert and a delete (in either order) by one session
InsertAndDelete(i, k) ==
    /\ IsEdit(log[i]) /\ IsEdit(log[k])
    /\ log[i].op # log[k].op
    /\ log[i].session = log[k].session

\* C9: an insert directly followed by a delete of the same session, or a
\* delete by an insert, opens a second undo group, and a single undo reverts
\* only the later edit.
C9_KindsNeverCoalesce ==
    panic = "none" =>
        /\ (N >= 2 /\ InsertAndDelete(N - 1, N)) => Opened(N)
        /\ (N >= 3 /\ log[N].op = "undo" /\ InsertAndDelete(N - 2, N - 1))
           => text = log[N - 1].text

\* A single undo reverted a delete that followed an insert, and left the
\* insert in the text.
C9_Witness ==
    /\ panic = "none"
    /\ N >= 3 /\ log[N].op = "undo" /\ InsertAndDelete(N - 2, N - 1)
    /\ text = log[N - 1].text
    /\ text # log[N - 2].text
    /\ log[N].text # text

\* C10: after move_all_cursors_left / move_all_cursors_right calls only,
\* started from cursors at valid positions, every cursor is a valid position
\* of the text.
C10_CursorsStayValid ==
    (\A i \in 1..N : IsMove(log[i]))
    => /\ panic = "none"
       /\ \A s \in Sessions : \A i \in 1..Len(selection[s]) :
             PointInBounds(text, selection[s][i].cursor.position)

----------------------------------------------------------------------------
(* Properties of the functions of text.rs (SpecText) *)

\* Position::apply_change has returned for the call
Returned(fn) == call.fn = fn /\ ret # Pending

\* Where the character at position p >= at of a text is, once t has been
\* inserted at `at`: p moved by the lines and bytes of t
ShiftedBy(p, at, t) ==
    IF p.line_index = at.line_index
    THEN IF Len(t) = 1
         THEN Pos(p.line_index, p.byte_index + Len(t[1]))
         ELSE Pos(p.line_index + Len(t) - 1,
                  Len(t[Len(t)]) + (p.byte_index - at.byte_index))
    ELSE Pos(p.line_index + Len(t) - 1, p.byte_index)

\* C11: Position::apply_change through Insert(P, t) with Drift::After moves
\* every position >= P, P itself included, by the length of t, and leaves
\* every position < P where it is.
C11_InsertShiftsFromPosition ==
    ( /\ Returned("Position::apply_change")
      /\ call.change.kind = "Insert"
      /\ call.drift = "After" )
    => ret.value = IF PosLt(call.position, call.change.position)
                   THEN call.position
                   ELSE ShiftedBy(call.position, call.change.position, call.change.text)

\* C12: Position::apply_change through Delete(start, length), for either
\* drift, maps p with start <= p <= start + length to start, leaves p < start
\* where it is, and maps p after the range to start + (p - (start + length)).
C12_DeleteCollapsesRange ==
    ( /\ Returned("Position::apply_change")
      /\ call.change.kind = "Delete" )
    => LET p     == call.position
           start == call.change.start
           end   == PosAdd(start, call.change.length)
       IN  ret.value = IF PosLt(p, start) THEN p
                       ELSE IF PosLe(p, end) THEN start
                       ELSE PosAdd(start, PosSub(p, end))

\* A position strictly inside a deleted range of several lines collapsed to
\* the start of the range.
C12_Witness ==
    /\ Returned("Position::apply_change")
    /\ call.change.kind = "Delete"
    /\ call.change.length.line_count > 0
    /\ PosLt(call.change.start, call.position)
    /\ PosLt(call.position, PosAdd(call.change.start, call.change.length))
    /\ ret.value = call.change.start

\* The lines of a text joined by "\n"
RECURSIVE Flat(_)
Flat(lines) ==
    IF Len(lines) = 1 THEN lines[1]
    ELSE lines[1] \o <<"\n">> \o Flat(Tail(lines))

\* The number of bytes of Flat(lines) before position p
RECURSIVE Offset(_, _)
Offset(lines, p) ==
    IF p.line_index = 0 THEN p.byte_index
    ELSE Len(lines[1]) + 1 + Offset(Tail(lines), Pos(p.line_index - 1, p.byte_index))

\* C13: applying an in-bounds change c to a text T and then c.invert(T)
\* yields T again; the inverse of an Insert is a Delete of the inserted
\* text's length at the same position, the inverse of a Delete is an Insert,
\* at the start of the range, of exactly the sub-text of T that c deletes.
C13_InvertRoundTrip ==
    Returned("Change::invert") =>
        LET c == call.change
            T == call.text
        IN  /\ ret.in_bounds
            /\ ret.restored = T
            /\ c.kind = "Insert" =>
                  ret.inverse = Delete(c.position,
                                       Len2(Len(c.text) - 1, Len(c.text[Len(c.text)])))
            /\ c.kind = "Delete" =>
                  /\ ret.inverse.kind = "Insert"
                  /\ ret.inverse.position = c.start
                  /\ Flat(ret.inverse.text) =
                         SubSeq(Flat(T), Offset(T, c.start) + 1,
                                Offset(T, PosAdd(c.start, c.length)))

\* A Delete across lines changed the text, and its inverse restored it.
C13_Witness ==
    /\ Returned("Change::invert")
    /\ call.change.kind = "Delete"
    /\ call.change.length.line_count > 0
    /\ ret.applied # call.text
    /\ ret.restored = call.text

----------------------------------------------------------------------------
(* Properties of the editing operations, continued (Spec) *)

\* C14: the text is never empty: after any sequence of operations it has at
\* least one line, and Text::length is (line count - 1, byte length of the
\* last line).
C14_TextNeverEmpty ==
    /\ Len(text) >= 1
    /\ TextLength(text) = Len2(Len(text) - 1, Len(text[Len(text)]))

\* A delete or an undo removed lines from the text and left the one empty
\* line of the empty document.
C14_Witness ==
    /\ panic = "none"
    /\ N >= 1
    /\ log[N].op \in {"delete", "undo"}
    /\ Len(log[N].text) > Len(text)
    /\ text = DefaultText

----------------------------------------------------------------------------
(* Properties of wrap (SpecWrap) *)

\* The bytes of the inline elements in order, each with the number of its
\* element: a widget is one byte
RECURSIVE ElementBytes(_, _)
ElementBytes(elements, k) ==
    IF elements = <<>> THEN <<>>
    ELSE (IF Head(elements).kind = "Widget"
          THEN << [element |-> k, widget |-> TRUE, whitespace |-> FALSE] >>
          ELSE [i \in 1..Len(Head(elements).text) |->
                   [element |-> k, widget |-> FALSE,
                    whitespace |-> IsWhitespace(Head(elements).text[i])]])
         \o ElementBytes(Tail(elements), k + 1)

\* The byte offsets at which an inline widget or a segment of a text run
\* begins: a segment begins where its text run begins and wherever, within
\* the run, whitespace meets non-whitespace
SegmentStarts(bytes) ==
    {i - 1 : i \in {j \in 1..Len(bytes) :
                       \/ bytes[j].widget
                       \/ j = 1
                       \/ bytes[j - 1].element # bytes[j].element
                       \/ bytes[j - 1].whitespace # bytes[j].whitespace}}

\* The break offsets the call of wrap has pushed on `positions`
Written == Drop(ret.positions, Len(call.positions))

\* C15: every break offset wrap writes is the byte offset at which a segment
\* of a text run or an inline widget begins, never one inside a segment, and
\* the offsets written are strictly increasing.
C15_BreaksAtSegmentStarts ==
    Returned("wrap") =>
        LET starts == SegmentStarts(ElementBytes(
                          InlineElements(call.text, call.inlays, 0), 1))
        IN  /\ \A i \in 1..Len(Written) : Written[i] \in starts
            /\ \A i \in 1..Len(Written), j \in 1..Len(Written) :
                   i < j => Written[i] < Written[j]

\* "aaaa bbbb cccc" wrapped to 9 columns got its one break at offset 9, where
\* the blank before cccc begins.
C15_Witness ==
    /\ Returned("wrap")
    /\ call = WrapExample
    /\ Written = <<9>>

----------------------------------------------------------------------------
(* Properties of the editing operations, continued (Spec) *)

\* The changes an undo (redo) applies: those of the last group of the undo
\* (redo) stack, last pushed first
LastGroupChanges(stack) ==
    LET start == stack.entries[Len(stack.entries)].changes_start
        n     == Len(stack.changes) - start
    IN  [i \in 1..n |-> stack.changes[Len(stack.changes) - i + 1]]

\* The changes an insert of t (a delete, for t = <<>>) applies for the regions
RECURSIVE ChangesFor(_, _, _)
ChangesFor(op, regions, t) ==
    IF regions = <<>> THEN <<>>
    ELSE << Delete(RegionStart(Head(regions)), RegionLength(Head(regions))) >>
         \o (IF op = "insert" THEN << Insert(RegionStart(Head(regions)), t) >> ELSE <<>>)
         \o ChangesFor(op, Tail(regions), t)

\* Every session but S has its regions of before the step, each mapped
\* through the changes in order
OthersRemapped(S, changes) ==
    \A o \in Sessions \ {S} :
        selection'[o] = SelectionApplyChanges(selection[o], changes)

\* The step is operation `op` called for session S, and it did not panic
RunsFor(op, S) == Runs(op) /\ log'[Len(log')].session = S /\ panic' = "none"

\* C16: after an undo or redo by session S that finds a group, S's selection
\* is the selection stored with the popped group and every other session
\* keeps its own regions, mapped through the applied changes in order; after
\* an insert or delete by S every other session is mapped through the
\* changes of that edit.
C16_OtherSessionsRemapped ==
    [][ \A S \in Sessions :
          /\ (RunsFor("undo", S) /\ undo_stack.entries # <<>>)
             => /\ selection'[S] = undo_stack.entries[Len(undo_stack.entries)].selection
                /\ OthersRemapped(S, LastGroupChanges(undo_stack))
          /\ (RunsFor("redo", S) /\ redo_stack.entries # <<>>)
             => /\ selection'[S] = redo_stack.entries[Len(redo_stack.entries)].selection
                /\ OthersRemapped(S, LastGroupChanges(redo_stack))
          /\ \A op \in {"insert", "delete"} :
                RunsFor(op, S)
                => OthersRemapped(S, ChangesFor(op, selection[S], log'[Len(log')].arg))
      ]_vars

\* An undo by one session changed the text; another session's regions moved
\* with the text and are not the selection the undo restored.
C16_Witness ==
    /\ panic = "none"
    /\ N >= 1
    /\ log[N].op = "undo" /\ log[N].depth > 0
    /\ text # log[N].text
    /\ \E o \in Sessions \ {log[N].session} :
          /\ selection[o] # log[N].selection[o]
          /\ selection[o] # selection[log[N].session]

\* The per-line cache arrays of a session
CacheArrays(c) ==
    << c.column_count, c.fold_column_index, c.fold_scale,
       c.wrap_byte_indices, c.wrap_indentation_width >>

\* C17: after every text modification each per-line cache array of every
\* session viewing the document has exactly one entry per line of the text,
\* also when the edit changed the number of lines.
C17_CachesMatchLines ==
    panic = "none" =>
        \A s \in Sessions : \A i \in 1..Len(CacheArrays(caches[s])) :
            Len(CacheArrays(caches[s])[i]) = Len(text)

----------------------------------------------------------------------------
(* Properties of the functions of selection.rs (SpecSelection) *)

\* C18: Region::apply_change keeps the length of a region, forward, backward
\* or empty, under every Insert whose position is the region's start() or
\* end(): the inserted text is never absorbed into the selection.
C18_SpanStableAtBoundary ==
    ( /\ Returned("Region::apply_change")
      /\ call.change.position \in {RegionStart(call.region), RegionEnd(call.region)} )
    => RegionLength(ret.region) = RegionLength(call.region)

\* The regions are sorted by start() and no region overlaps the next one
SortedApart(regions) ==
    \A i \in 1..(Len(regions) - 1) :
        /\ PosLe(RegionStart(regions[i]), RegionStart(regions[i + 1]))
        /\ ~OverlapsWith(regions[i], regions[i + 1])

\* C19: Selection::update(index, f) on a selection sorted by start() in which
\* no region overlaps the next one leaves, for every f, a selection that is
\* again sorted with no region overlapping the next one, and returns the
\* index at which f(region) now sits.
C19_UpdateKeepsSortedApart ==
    ( /\ Returned("Selection::update")
      /\ SortedApart(call.regions) )
    => /\ SortedApart(ret.regions)
       /\ ret.index < Len(ret.regions)
       /\ ret.regions[ret.index + 1] = call.new_region

\* The middle one of three regions grew over both its neighbours, which were
\* removed, and the index returned moved from 1 to 0.
C19_Witness ==
    /\ Returned("Selection::update")
    /\ SortedApart(call.regions)
    /\ Len(call.regions) = 3 /\ call.index = 1
    /\ ret.regions = << call.new_region >>
    /\ ret.index = 0

\* For each region update_all's merging pass leaves, the indices (in the
\* selection before the pass) of the regions merged into it: origins[i] goes
\* with regions[i], and a region merged into its left neighbour hands its
\* origins over to it
RECURSIVE Origins(_, _, _)
Origins(regions, origins, current_index) ==
    IF current_index + 1 < Len(regions)
    THEN IF OverlapsWith(regions[current_index + 1], regions[current_index + 2])
         THEN Origins(RemoveAt([regions EXCEPT ![current_index + 1] =
                                    MergeWith(regions[current_index + 1],
                                              regions[current_index + 2])],
                               current_index + 1),
                      RemoveAt([origins EXCEPT ![current_index + 1] =
                                    origins[current_index + 1]
                                    \cup origins[current_index + 2]],
                               current_index + 1),
                      current_index)
         ELSE Origins(regions, origins, current_index + 1)
    ELSE origins

\* C20: Selection::update_all(index, f) returns an index smaller than the
\* resulting number of regions, and the region at that index is the one the
\* region originally at `index` is now part of, also when that region was
\* merged into its left neighbour.
C20_UpdateAllIndexTracksRegion ==
    ( /\ Returned("Selection::update_all")
      /\ ret.panic = "none" )
    => /\ ret.index < Len(ret.regions)
       /\ call.index \in Origins(call.mapped,
                                 [i \in 1..Len(call.mapped) |-> {i - 1}],
                                 0)[ret.index + 1]

\* C21: when Region::merge_with merges two overlapping regions with
\* self.start() <= other.start(), the merged region spans from the smaller
\* start to the larger end of the two, whatever the directions of the two
\* regions.
C21_MergeSpansUnion ==
    ( /\ Returned("Region::merge_with")
      /\ ret.merged # << >> )
    => /\ RegionStart(ret.merged[1])
            = PosMin(RegionStart(call.region), RegionStart(call.other))
       /\ RegionEnd(ret.merged[1])
            = PosMax(RegionEnd(call.region), RegionEnd(call.other))

----------------------------------------------------------------------------
(* Properties of wrap, continued (SpecWrap) *)

\* The display widths of the segments and inline widgets of the line wrapped,
\* in order
RECURSIVE SegmentColumns(_, _)
SegmentColumns(elements, tab_column_count) ==
    IF elements = <<>> THEN <<>>
    ELSE (IF Head(elements).kind = "Widget"
          THEN << Head(elements).column_count >>
          ELSE LET strings == SplitWhitespaceBoundaries(Head(elements).text)
               IN  [i \in 1..Len(strings) |-> ColumnCount(strings[i], tab_column_count)])
         \o SegmentColumns(Tail(elements), tab_column_count)

\* The segment widths of the call of wrap
CallColumns == SegmentColumns(InlineElements(call.text, call.inlays, 0),
                              call.tab_column_count)

\* The display width of the leading whitespace of the line wrapped
CallIndentation == ColumnCount(LeadingWhitespace(call.text), call.tab_column_count)

\* C22 as stated: wrap returns the display width of the leading whitespace,
\* and 0 exactly when that width plus the width of the first segment exceeds
\* max_column_count; later segments do not matter.
C22_FirstSegmentDecides ==
    Returned("wrap") =>
        ret.indentation_width =
            IF CallColumns # <<>>
               /\ CallIndentation + CallColumns[1] > call.max_column_count
            THEN 0
            ELSE CallIndentation

\* C22, amended: wrap returns the display width of the leading whitespace,
\* and 0 when that width plus the width of some segment or inline widget of
\* the line, the first or a later one, exceeds max_column_count.
C22_AnySegmentDecides ==
    Returned("wrap") =>
        ret.indentation_width =
            IF \E i \in 1..Len(CallColumns) :
                   CallIndentation + CallColumns[i] > call.max_column_count
            THEN 0
            ELSE CallIndentation

\* An indented line whose first segment fits beside the indentation and
\* whose last segment does not: the indentation returned is 0.
C22_Witness ==
    /\ Returned("wrap")
    /\ CallIndentation > 0
    /\ CallIndentation + CallColumns[1] <= call.max_column_count
    /\ \E i \in 2..Len(CallColumns) :
          CallIndentation + CallColumns[i] > call.max_column_count
    /\ ret.indentation_width = 0

\* The lengths in bytes of the segments and inline widgets of the line
\* wrapped, in order: a widget is one byte
RECURSIVE SegmentLengths(_)
SegmentLengths(elements) ==
    IF elements = <<>> THEN <<>>
    ELSE (IF Head(elements).kind = "Widget"
          THEN << 1 >>
          ELSE LET strings == SplitWhitespaceBoundaries(Head(elements).text)
               IN  [i \in 1..Len(strings) |-> Len(strings[i])])
         \o SegmentLengths(Tail(elements))

RECURSIVE SumTo(_, _)
SumTo(numbers, n) == IF n = 0 THEN 0 ELSE numbers[n] + SumTo(numbers, n - 1)

\* The row the i-th segment of the call of wrap is displayed in: the number
\* of breaks written at or before the byte offset at which it begins
RowOf(i) ==
    LET start == SumTo(SegmentLengths(InlineElements(call.text, call.inlays, 0)), i - 1)
    IN  Cardinality({k \in 1..Len(Written) : Written[k] <= start})

\* The segments displayed in row r
RowSegments(r) == {i \in 1..Len(CallColumns) : RowOf(i) = r}

RECURSIVE SumOver(_, _)
SumOver(numbers, indices) ==
    IF indices = {} THEN 0
    ELSE LET i == CHOOSE j \in indices : TRUE
         IN  numbers[i] + SumOver(numbers, indices \ {i})

\* The display width of row r: a continuation row starts at the indentation
\* width returned
RowWidth(r) ==
    (IF r = 0 THEN 0 ELSE ret.indentation_width) + SumOver(CallColumns, RowSegments(r))

\* C23: in the rows delimited by the breaks wrap writes, continuation rows
\* starting at the indentation width returned, every row of two or more
\* segments is at most max_column_count wide, and a row wider than that
\* holds one segment which alone is wider than max_column_count.
C23_GreedyRowBound ==
    Returned("wrap") =>
        \A r \in 0..Len(Written) :
            /\ Cardinality(RowSegments(r)) >= 2 => RowWidth(r) <= call.max_column_count
            /\ RowWidth(r) > call.max_column_count =>
                   \E i \in RowSegments(r) :
                       /\ RowSegments(r) = {i}
                       /\ CallColumns[i] > call.max_column_count

\* An indented line wrapped into a continuation row of two segments that
\* fills the row exactly.
C23_Witness ==
    /\ Returned("wrap")
    /\ ret.indentation_width > 0
    /\ \E r \in 1..Len(Written) :
          /\ Cardinality(RowSegments(r)) >= 2
          /\ RowWidth(r) = call.max_column_count

----------------------------------------------------------------------------
(* Properties of Line::wrapped_elements (SpecWrap) *)

\* What a sequence of Text and Widget elements displays: its bytes, each with
\* the is_inlay flag of its text run, and its widgets
RECURSIVE Contents(_)
Contents(elements) ==
    IF elements = <<>> THEN <<>>
    ELSE (IF Head(elements).kind = "Widget"
          THEN << Head(elements) >>
          ELSE [i \in 1..Len(Head(elements).text) |->
                   [is_inlay |-> Head(elements).is_inlay, byte |-> Head(elements).text[i]]])
         \o Contents(Tail(elements))

IsElement(e) == e.kind \in {"Text", "Widget"}

\* The places of the Wrap markers among the elements returned
WrapPlaces == {j \in 1..Len(ret.elements) : ret.elements[j] = WrapMarker}

\* C24: for a line whose wrap_byte_indices were written by wrap,
\* wrapped_elements emits one Wrap marker per break, each where the bytes
\* emitted so far (text bytes, raw or inlay, and one per widget) equal the
\* break offset, so that a text run spanning a break is split at that
\* offset, and the Text and Widget elements it emits make up exactly the
\* inline_elements sequence.
C24_WrappedElementsSplitAtBreaks ==
    Returned("Line::wrapped_elements") =>
        /\ Cardinality(WrapPlaces) = Len(call.wrap_byte_indices)
        /\ \A j \in WrapPlaces :
               Len(Contents(SelectSeq(SubSeq(ret.elements, 1, j - 1), IsElement)))
                   = call.wrap_byte_indices[Cardinality({k \in WrapPlaces : k <= j})]
        /\ \A j \in 1..Len(ret.elements) : ret.elements[j] # Overflow
        /\ Contents(SelectSeq(ret.elements, IsElement))
               = Contents(InlineElements(call.text, call.inlays, 0))

----------------------------------------------------------------------------
(* Properties of the editing operations: assertions and groups (Spec) *)

\* C25: for every sequence of State operations by any sessions, whenever
\* Edit::apply_change pushes an inverse change the undo stack has an open
\* group: the assertion `!self.entries.is_empty()` of EditStack::push_change
\* never fails.
C25_PushChangeAssertionHolds == panic # "assert_entries_not_empty"

\* C26: an insert or delete performed right after an undo or redo opens a
\* new undo group, and a single undo after it reverts that edit only.
C26_EditAfterUndoOpensGroup ==
    panic = "none" =>
        /\ ( /\ N >= 2 /\ IsEdit(log[N])
             /\ log[N - 1].op \in {"undo", "redo"} )
           => Opened(N)
        /\ ( /\ N >= 3 /\ log[N].op = "undo" /\ IsEdit(log[N - 1])
             /\ log[N - 2].op \in {"undo", "redo"} )
           => text = log[N - 1].text

\* Every region of the selection is an empty cursor
AllEmpty(regions) == \A i \in 1..Len(regions) : RegionIsEmpty(regions[i])

\* C27: after State.insert(session, t) on a selection of empty cursors every
\* region of the session is again empty, and a single cursor sits right after
\* the text inserted at it.
C27_CursorEmptyAfterInsert ==
    ( /\ panic = "none" /\ N >= 1 /\ log[N].op = "insert" /\ ~log[N].setup
      /\ AllEmpty(log[N].selection[log[N].session]) )
    => LET before == log[N].selection[log[N].session]
           after  == selection[log[N].session]
       IN  /\ AllEmpty(after)
           /\ Len(before) = 1 =>
                  after[1].cursor.position
                      = PosAdd(before[1].cursor.position, TextLength(log[N].arg))

\* C28: for every sequence of State operations with cursors at valid
\* positions, the assertion `current_region.start() <= next_region.start()`
\* of Selection::update_all never fails.
C28_UpdateAllAssertionHolds == panic # "assert_sorted"

\* C29: after every State operation each session's last_added_region is an
\* index into its selection, smaller than the number of its regions.
C29_LastAddedRegionValid ==
    panic = "none" =>
        \A s \in Sessions : last_added_region[s] < Len(selection[s])

----------------------------------------------------------------------------
(* Properties of Selection::update, continued (SpecSelection) *)

\* The spans of the two regions intersect or touch
Touches(r, other) ==
    /\ PosLe(RegionStart(r), RegionEnd(other))
    /\ PosLe(RegionStart(other), RegionEnd(r))

\* The indices (in the selection called with) of the regions the call of
\* Selection::update removed: the neighbours on the left down to the index
\* returned, and as many neighbours on the right as are missing besides
RemovedByUpdate ==
    LET left  == call.index - ret.index
        right == Len(call.regions) - Len(ret.regions) - left
    IN  (ret.index .. (call.index - 1)) \cup ((call.index + 1) .. (call.index + right))

\* C30: Selection::update, called on a selection sorted by start() in which
\* no region overlaps the next one, removes a neighbouring region only if its
\* span intersects or touches the new span of the mutated region; a region
\* entirely before or entirely after that span is kept.
C30_UpdateRemovesOnlyTouching ==
    ( /\ Returned("Selection::update")
      /\ SortedApart(call.regions) )
    => \A i \in RemovedByUpdate : Touches(call.regions[i + 1], call.new_region)

----------------------------------------------------------------------------
(* Properties of the cursor operations (Spec) *)

\* The step runs a cursor operation
RunsCursorOp == Len(log') = Len(log) + 1 /\ IsCursorOp(log'[Len(log')])

\* C31: set_cursor, add_cursor, update_last_added_cursor and
\* move_all_cursors_left/right leave the text, the undo stack, the redo stack
\* and the selections and last-added indices of the other sessions as they
\* were, and clear the grouping marker: a redo available before the cursor
\* operation is available after it.
C31_CursorOpsFrame ==
    [][ RunsCursorOp =>
            /\ text' = text
            /\ undo_stack' = undo_stack
            /\ redo_stack' = redo_stack
            /\ \A s \in Sessions \ {log'[Len(log')].session} :
                   /\ selection'[s] = selection[s]
                   /\ last_added_region'[s] = last_added_region[s]
            /\ panic' = "none" => prev_edit' = None ]_vars

\* A cursor operation changed the selection of its session right after an
\* undo that left a group to redo and the grouping marker set.
C31_Witness ==
    /\ panic = "none"
    /\ N >= 2 /\ IsCursorOp(log[N])
    /\ log[N - 1].op = "undo" /\ log[N - 1].depth > 0
    /\ redo_stack.entries # <<>>
    /\ prev_edit = None
    /\ selection[log[N].session] # log[N].selection[log[N].session]

====
